---- MODULE Spec2Model ----
(***************************************************************************)
(* mortis-rs: an HTTP handler admits client addresses into an ipset        *)
(* ("mortis-whitelist") that an iptables chain consults; a cleaner task    *)
(* evicts stale entries of the in-process whitelist; main installs the     *)
(* set, the chain and the jump rule and the shutdown path removes them.    *)
(*                                                                         *)
(* Time is in seconds and is kept as ages: the model holds, for a member   *)
(* of the set, the time since it was added and, for an Instant of the      *)
(* whitelist, its elapsed().  A handler, a sweep and the teardown run at   *)
(* one instant (milliseconds against a TTL of 300 s); time passes between  *)
(* them.                                                                   *)
(***************************************************************************)
EXTENDS Integers, Sequences, FiniteSets, TLC

\* ------------------------------------------------------------- bounds
NumHandlers == 2
\* requests followed when the trace is on
MaxRequests == 2
\* an elapsed time is counted up to here; beyond it, it stays
MaxElapsed == 360

\* the client addresses followed
Addrs == {"A", "B"}
Handlers == 1..NumHandlers
\* how far the clock moves in one step of the model
Delays == {60}

\* ---------------------------------------------------- program constants
\* cleaner.rs: instant.elapsed().as_secs() > 300
TTL == 300
\* cleaner.rs: tokio::time::sleep(Duration::from_secs(60))
SWEEP_INTERVAL == 60
\* main.rs setup_ipset: .with_timeout(300)
IPSET_TIMEOUT == 300
\* Instant::elapsed() is a Duration finer than a second; the whitelist holds
\* it in units of 1/SubSec s, and Duration::as_secs() gives the whole seconds.
SubSec == 2

VARIABLES
    mainPc,       \* position of main(): "setup", "serving", "aborted", "exited"
    setupLog,     \* the steps of SetupSteps main() has made, each with its result
    fw,           \* the host's packet filter: [set, timeout, chain, rules, jump]
    ipset,        \* the set mortis-whitelist: member -> seconds since it was added
    whitelist,    \* AppState.whitelist: address -> elapsed() of its Instant, in 1/SubSec s
    sessionLock,  \* owner of Mutex<Session<HashIp>>: "free", "sweeper"
    whitelistLock,\* owner of AppState.whitelist's Mutex: "free", "sweeper"
    handler,      \* handler task -> [pc, addr, res]
    sweeper,      \* cleaner::task: [pc, left, found, err]
    shutdown,     \* shutdown_signal: [pc, log, late]
    trace         \* history: what was asked for, and what was asked of the set

vars == <<mainPc, setupLog, fw, ipset, whitelist, sessionLock, whitelistLock,
          handler, sweeper, shutdown, trace>>

\* ------------------------------------------------------------ helpers
Min(x, y) == IF x < y THEN x ELSE y

AllOk(cs) == \A i \in 1..Len(cs) : cs[i][2]

Ops(cs) == [i \in 1..Len(cs) |-> cs[i][1]]

Issued(cs, op) == Cardinality({i \in 1..Len(cs) : cs[i][1] = op})

Remove(w, a) == [x \in DOMAIN w \ {a} |-> w[x]]

Put(w, a, v) == [x \in DOMAIN w \cup {a} |-> IF x = a THEN v ELSE w[x]]

\* d seconds later
Aged(w, d) == [x \in DOMAIN w |-> Min(w[x] + d, MaxElapsed)]

\* Duration::as_secs()
AsSecs(e) == e \div SubSec

\* the Instants of the whitelist, d seconds later
Elapsing(w, d) == [x \in DOMAIN w |-> Min(w[x] + d * SubSec, MaxElapsed * SubSec)]

\* holds when nobody owns Mutex<Session<HashIp>>: lock().await returns
SessionUnguarded == TRUE

SessionFree == sessionLock = "free"

\* a MutexGuard has been dropped
StillHeld == "sweeper"

Released == "free"

Idle == [pc |-> "idle", addr |-> "none", res |-> "none"]

InFlight(a) == {h \in Handlers : handler[h].pc # "idle" /\ handler[h].addr = a}

\* A call into the packet filter may fail; on a destroyed set it can only fail.
Outcomes == IF fw.set THEN BOOLEAN ELSE {FALSE}

Empty == [a \in {} |-> 0]

\* The kernel counts the age of a member of a set created with a timeout, and
\* drops the member when the timeout has run out.
Expire(members, timeout, d) ==
    IF timeout = {} THEN members
    ELSE LET later == Aged(members, d)
         IN  [a \in {x \in DOMAIN later : \A t \in timeout : later[x] < t} |-> later[a]]

\* ------------------------------------------------------------ history
\* trace.on is fixed by the initial state; when it is off nothing is recorded.
NoTag == [trusted |-> FALSE, new |-> FALSE, refresh |-> FALSE, readmit |-> FALSE,
          calls |-> <<>>]

NoHistory == [n |-> 0, adds |-> 0, dels |-> 0, since |-> 0, within |-> TRUE, clean |-> TRUE]

NoTrace(on) == [on |-> on, requests |-> 0,
                req |-> [h \in Handlers |-> NoTag],
                addr |-> [a \in Addrs |-> NoHistory]]

\* a request for address a, classified t, is given to handler h
TrArrive(tr, h, a, t) ==
    IF ~tr.on THEN tr
    ELSE LET was == tr.addr[a]
             alone == InFlight(a) = {}
         IN [tr EXCEPT
               !.requests = @ + 1,
               !.req[h] = [trusted |-> t,
                           new |-> /\ a \notin DOMAIN ipset
                                   /\ a \notin DOMAIN whitelist
                                   /\ was.n = Cardinality(InFlight(a))
                                   /\ \A g \in InFlight(a) : tr.req[g].calls = <<>>,
                           refresh |-> was.n > 0 /\ was.clean /\ alone /\ was.since <= TTL,
                           readmit |-> was.n > 0 /\ was.clean /\ alone /\ was.since > TTL,
                           calls |-> <<>>],
               !.addr[a] = [was EXCEPT
                           !.n = @ + 1,
                           !.since = 0,
                           !.within = was.within /\ alone /\ (was.n > 0 => was.since <= TTL),
                           !.clean = @ /\ t]]

\* handler h made the call op for address a
TrCall(tr, h, a, op, ok) ==
    IF ~tr.on THEN tr
    ELSE [tr EXCEPT
            !.req[h].calls = Append(@, <<op, ok>>),
            !.addr[a] = [@ EXCEPT !.adds = IF op = "add" THEN @ + 1 ELSE @,
                                  !.dels = IF op = "del" THEN @ + 1 ELSE @,
                                  !.clean = @ /\ ok]]

\* the sweeper made the call del for address a
TrSweepDel(tr, a, ok) ==
    IF ~tr.on THEN tr
    ELSE [tr EXCEPT !.addr[a] = [@ EXCEPT !.dels = @ + 1, !.clean = @ /\ ok]]

TrReturn(tr, h) == IF ~tr.on THEN tr ELSE [tr EXCEPT !.req[h] = NoTag]

TrTick(tr, d) ==
    IF ~tr.on THEN tr
    ELSE [tr EXCEPT !.addr = [a \in Addrs |->
            [tr.addr[a] EXCEPT !.since = IF tr.addr[a].n = 0 THEN 0
                                         ELSE Min(@ + d, MaxElapsed)]]]

\* ------------------------------------------------------------ startup
\* main(): setup_ipset().unwrap(), setup_iptables(..).unwrap() (each call in
\* it unwrapped), TcpListener::bind(..).unwrap(), then axum::serve.
SetupStepsJumpFirst == <<"create_set", "iptables_new", "insert_jump", "new_chain",
                         "append_sports_drop", "append_set_accept",
                         "append_hashlimit_return", "append_drop", "bind_listener">>

SetupSteps == <<"create_set", "iptables_new", "new_chain", "append_sports_drop",
                "append_set_accept", "append_hashlimit_return", "append_drop",
                "insert_jump", "bind_listener">>

ApplySetup(step, f) ==
    CASE step = "create_set"  -> [f EXCEPT !.set = TRUE, !.timeout = {IPSET_TIMEOUT}]
      [] step = "new_chain"   -> [f EXCEPT !.chain = TRUE]
      [] step \in {"append_sports_drop", "append_set_accept",
                   "append_hashlimit_return", "append_drop"}
                              -> [f EXCEPT !.rules = Append(@, step)]
      [] step = "insert_jump" -> [f EXCEPT !.jump = TRUE]
      [] OTHER                -> f

\* .unwrap() on a failed step panics: the process aborts.
AfterSetupStepIgnoringErr(i, ok) ==
    IF i = Len(SetupSteps) THEN "serving" ELSE "setup"

AfterSetupStep(i, ok) ==
    IF ~ok THEN "aborted"
    ELSE IF i = Len(SetupSteps) THEN "serving" ELSE "setup"

SetupStep ==
    /\ mainPc = "setup"
    /\ LET i == Len(setupLog) + 1 IN
       \E ok \in BOOLEAN :
         /\ mainPc' = AfterSetupStep(i, ok)
         /\ setupLog' = Append(setupLog, <<SetupSteps[i], ok>>)
         /\ fw' = IF ok THEN ApplySetup(SetupSteps[i], fw) ELSE fw
    /\ UNCHANGED <<ipset, whitelist, sessionLock, whitelistLock,
                   handler, sweeper, shutdown, trace>>

\* The server takes requests from axum::serve until the future given to
\* with_graceful_shutdown has completed.
Accepting == mainPc = "serving" /\ shutdown.pc \notin {"done", "panicked"}

\* ------------------------------------------------------------ handler
\* The ? operator: an Err leaves the handler through AppError.
Try(ok, next) == IF ok THEN next ELSE "err"

Res(ok) == IF ok THEN "ok" ELSE "err"

\* A request reaches handler(): the extractors give it the peer address; the
\* classification t of the request (trusted or not) is never looked at.
Arrive(h, a, t) ==
    /\ Accepting
    /\ trace.on => trace.requests < MaxRequests
    /\ handler[h].pc = "idle"
    /\ \A g \in Handlers : g < h => handler[g].pc # "idle"
    /\ handler' = [handler EXCEPT ![h] = [pc |-> "test", addr |-> a, res |-> "none"]]
    /\ trace' = TrArrive(trace, h, a, t)
    /\ UNCHANGED <<mainPc, setupLog, fw, ipset, whitelist, sessionLock,
                   whitelistLock, sweeper, shutdown>>

\* main.rs 49: if ipset_session.lock().await.test(addr.ip())?
AfterTest(ok, member) == Try(ok, IF member THEN "del" ELSE "add")

HandlerTest(h) ==
    /\ handler[h].pc = "test"
    /\ SessionFree
    /\ \E ok \in Outcomes :
         /\ handler' = [handler EXCEPT
                ![h].pc = AfterTest(ok, handler[h].addr \in DOMAIN ipset),
                ![h].res = Res(ok)]
         /\ trace' = TrCall(trace, h, handler[h].addr, "test", ok)
    /\ UNCHANGED <<mainPc, setupLog, fw, ipset, whitelist, sessionLock,
                   whitelistLock, sweeper, shutdown>>

\* main.rs 50: ipset_session.lock().await.del(addr.ip())?
AfterDel(ok) == Try(ok, "add")

HandlerDel(h) ==
    /\ handler[h].pc = "del"
    /\ SessionFree
    /\ \E ok \in Outcomes :
         /\ handler' = [handler EXCEPT ![h].pc = AfterDel(ok), ![h].res = Res(ok)]
         /\ ipset' = IF ok THEN Remove(ipset, handler[h].addr) ELSE ipset
         /\ trace' = TrCall(trace, h, handler[h].addr, "del", ok)
    /\ UNCHANGED <<mainPc, setupLog, fw, whitelist, sessionLock,
                   whitelistLock, sweeper, shutdown>>

\* main.rs 52: ipset_session.lock().await.add(addr.ip(), &[])?
AfterAddIgnoringErr(ok) == "ok"

AfterAdd(ok) == Try(ok, "ok")

HandlerAdd(h) ==
    /\ handler[h].pc = "add"
    /\ SessionFree
    /\ \E ok \in Outcomes :
         /\ handler' = [handler EXCEPT ![h].pc = AfterAdd(ok), ![h].res = Res(ok)]
         /\ ipset' = IF ok THEN Put(ipset, handler[h].addr, 0) ELSE ipset
         /\ trace' = TrCall(trace, h, handler[h].addr, "add", ok)
    /\ UNCHANGED <<mainPc, setupLog, fw, whitelist, sessionLock, whitelistLock,
                   sweeper, shutdown>>

\* What the caller gets: main.rs 53-62 (a redirect or the "ip:.. path:.."
\* body) or AppError's 500 (main.rs 67-75).  There is no other response.
Outcome(h) ==
    CASE handler[h].pc = "ok"  -> "admitted"
      [] handler[h].pc = "err" -> "failed"
      [] OTHER                 -> "pending"

HandlerReturn(h) ==
    /\ handler[h].pc \in {"ok", "err"}
    /\ handler' = [handler EXCEPT ![h] = Idle]
    /\ trace' = TrReturn(trace, h)
    /\ UNCHANGED <<mainPc, setupLog, fw, ipset, whitelist, sessionLock,
                   whitelistLock, sweeper, shutdown>>

\* ------------------------------------------------------------- clock
Tick(d) ==
    /\ mainPc = "serving"
    /\ shutdown.pc = "waiting"
    /\ \A h \in Handlers : handler[h].pc = "idle"
    /\ sweeper.pc = "sleep"
    /\ d <= sweeper.left
    /\ sweeper' = [sweeper EXCEPT !.left = @ - d]
    /\ ipset' = Expire(ipset, fw.timeout, d)
    /\ whitelist' = Elapsing(whitelist, d)
    /\ trace' = TrTick(trace, d)
    /\ UNCHANGED <<mainPc, setupLog, fw, sessionLock, whitelistLock,
                   handler, shutdown>>

\* ------------------------------------------------------------ sweeper
\* The cleaner task runs for as long as the process serves.
SweeperAlive == mainPc = "serving"

\* cleaner.rs 23-27: the entries whose instant.elapsed().as_secs() > 300
Stale(w) == {a \in DOMAIN w : AsSecs(w[a]) > TTL}

\* The orders in which to_remove can list a set of addresses (HashMap
\* iteration order).
Orders(S) == {o \in [1..Cardinality(S) -> S] : \A i, j \in DOMAIN o : o[i] = o[j] => i = j}

\* cleaner.rs 29-33: try_for_each over to_remove; for each address
\* whitelist.remove(ip), then ipset.del(*ip)?.  bad holds the addresses whose
\* del fails.  st is [whitelist, ipset, trace, err].
DelFailed(st, ip) ==
    [st EXCEPT !.trace = TrSweepDel(@, ip, FALSE), !.err = @ \cup {ip}]

DelDone(st, ip) ==
    [st EXCEPT !.ipset = Remove(@, ip), !.trace = TrSweepDel(@, ip, TRUE)]

RECURSIVE TryForEach(_, _, _, _)
TryForEach(order, i, bad, st) ==
    IF i > Len(order) THEN st
    ELSE LET ip == order[i]
             st1 == [st EXCEPT !.whitelist = Remove(@, ip)]
         IN  IF ip \in bad THEN DelFailed(st1, ip)
             ELSE TryForEach(order, i + 1, bad, DelDone(st1, ip))

\* cleaner.rs 10 and 18: the sleep is over, state.whitelist.lock().await
SweeperLockWhitelist ==
    /\ SweeperAlive
    /\ sweeper.pc = "sleep"
    /\ sweeper.left = 0
    /\ whitelistLock = "free"
    /\ whitelistLock' = "sweeper"
    /\ sweeper' = [sweeper EXCEPT !.pc = "lock_session"]
    /\ UNCHANGED <<mainPc, setupLog, fw, ipset, whitelist, sessionLock,
                   handler, shutdown, trace>>

\* cleaner.rs 19: state.ipset_session.lock().await
SweeperLockSession ==
    /\ SweeperAlive
    /\ sweeper.pc = "lock_session"
    /\ SessionFree
    /\ sessionLock' = "sweeper"
    /\ sweeper' = [sweeper EXCEPT !.pc = "scan"]
    /\ UNCHANGED <<mainPc, setupLog, fw, ipset, whitelist, whitelistLock,
                   handler, shutdown, trace>>

\* cleaner.rs 22-28: to_remove, in the order whitelist.iter() gives
SweeperScan ==
    /\ SweeperAlive
    /\ sweeper.pc = "scan"
    /\ \E order \in Orders(Stale(whitelist)) :
         sweeper' = [sweeper EXCEPT !.pc = "clean", !.found = order]
    /\ UNCHANGED <<mainPc, setupLog, fw, ipset, whitelist, sessionLock,
                   whitelistLock, handler, shutdown, trace>>

\* cleaner.rs 12: let _ = clean_ipset(..).await; the loop goes on to sleep
\* whatever the result.
AfterSweepStopOnErr(err) == IF err = {} THEN "sleep" ELSE "stopped"

AfterSweep(err) == "sleep"

\* cleaner.rs 30-37: try_for_each under both guards, which are dropped at the
\* return; then task() drops the result and sleeps again.
SweeperClean ==
    /\ SweeperAlive
    /\ sweeper.pc = "clean"
    /\ \E bad \in SUBSET Stale(whitelist) :
         /\ ~fw.set => bad = Stale(whitelist)
         /\ LET st == TryForEach(sweeper.found, 1, bad,
                        [whitelist |-> whitelist, ipset |-> ipset,
                         trace |-> trace, err |-> {}])
            IN  /\ whitelist' = st.whitelist
                /\ ipset' = st.ipset
                /\ trace' = st.trace
                /\ sweeper' = [pc |-> AfterSweep(st.err), left |-> SWEEP_INTERVAL,
                               found |-> <<>>, err |-> st.err]
    /\ sessionLock' = Released
    /\ whitelistLock' = Released
    /\ UNCHANGED <<mainPc, setupLog, fw, handler, shutdown>>

\* ----------------------------------------------------------- shutdown
\* shutdown_signal: both select! arms run clean_iptables(..).unwrap(), then
\* clean_ipset(ipset_session.lock().await.deref_mut()).unwrap().
IptablesStepsChainFirst == <<"flush_chain", "delete_chain", "delete_jump">>

IptablesSteps == <<"delete_jump", "flush_chain", "delete_chain">>

IpsetSteps == <<"flush_set", "destroy_set">>

ApplyTeardown(step, f) ==
    CASE step = "delete_jump"  -> [f EXCEPT !.jump = FALSE]
      [] step = "flush_chain"  -> [f EXCEPT !.rules = <<>>]
      [] step = "delete_chain" -> [f EXCEPT !.chain = FALSE]
      [] step = "destroy_set"  -> [f EXCEPT !.set = FALSE]
      [] OTHER                 -> f

\* Runs steps[i..] in order; the step at index failAt fails (none does when
\* failAt is past the end) and ends the run: clean_iptables unwraps each call,
\* clean_ipset returns the Err with ?.  st is [fw, log, failed].
RECURSIVE RunSteps(_, _, _, _)
RunSteps(steps, i, failAt, st) ==
    IF i > Len(steps) THEN st
    ELSE IF i = failAt
         THEN [st EXCEPT !.log = Append(@, <<steps[i], FALSE>>), !.failed = TRUE]
         ELSE RunSteps(steps, i + 1, failAt,
                       [st EXCEPT !.fw = ApplyTeardown(steps[i], @),
                                  !.log = Append(@, <<steps[i], TRUE>>)])

\* .unwrap() on the Err of a teardown function panics the shutdown future.
AfterTeardown(failed, next) == IF failed THEN "panicked" ELSE next

\* select!: ctrl_c or terminate, whichever comes first, ends the wait; the
\* select! is not in a loop, so a notification that comes later finds nobody
\* waiting for it.
AfterSignalRestart(pc) == "clean_iptables"

AfterSignal(pc) == IF pc = "waiting" THEN "clean_iptables" ELSE pc

\* A notification is delivered to the process; late records that one came
\* after the first.
Signal(sig) ==
    /\ mainPc = "serving"
    /\ shutdown.pc = "waiting" \/ ~shutdown.late
    /\ sig \in {"ctrl_c", "terminate"}
    /\ shutdown' = [shutdown EXCEPT !.pc = AfterSignal(@),
                                    !.late = shutdown.pc # "waiting"]
    /\ UNCHANGED <<mainPc, setupLog, fw, ipset, whitelist, sessionLock,
                   whitelistLock, handler, sweeper, trace>>

\* main.rs 142-156, called at 182 and 186
CleanIptables ==
    /\ mainPc = "serving"
    /\ shutdown.pc = "clean_iptables"
    /\ \E failAt \in 1..(Len(IptablesSteps) + 1) :
         LET st == RunSteps(IptablesSteps, 1, failAt,
                            [fw |-> fw, log |-> shutdown.log, failed |-> FALSE])
         IN  /\ fw' = st.fw
             /\ shutdown' = [shutdown EXCEPT
                    !.pc = AfterTeardown(st.failed, "clean_ipset"),
                    !.log = st.log]
    /\ UNCHANGED <<mainPc, setupLog, ipset, whitelist, sessionLock,
                   whitelistLock, handler, sweeper, trace>>

\* main.rs 183 and 187: the guard of ipset_session.lock().await lives through
\* the call of clean_ipset (main.rs 99-103) and is dropped after it, also
\* when the unwrap panics.
CleanIpset ==
    /\ mainPc = "serving"
    /\ shutdown.pc = "clean_ipset"
    /\ SessionFree
    /\ \E failAt \in 1..(Len(IpsetSteps) + 1) :
         LET st == RunSteps(IpsetSteps, 1, failAt,
                            [fw |-> fw, log |-> shutdown.log, failed |-> FALSE])
         IN  /\ fw' = st.fw
             /\ ipset' = IF failAt > 1 THEN Empty ELSE ipset
             /\ shutdown' = [shutdown EXCEPT
                    !.pc = AfterTeardown(st.failed, "done"),
                    !.log = st.log]
    /\ UNCHANGED <<mainPc, setupLog, whitelist, sessionLock,
                   whitelistLock, handler, sweeper, trace>>

\* axum::serve(..).with_graceful_shutdown(..).await returns once the shutdown
\* future is over and the requests in flight have been answered.
MainExit ==
    /\ mainPc = "serving"
    /\ shutdown.pc \in {"done", "panicked"}
    /\ \A h \in Handlers : handler[h].pc = "idle"
    /\ mainPc' = "exited"
    /\ UNCHANGED <<setupLog, fw, ipset, whitelist, sessionLock,
                   whitelistLock, handler, sweeper, shutdown, trace>>

\* ------------------------------------------------------ specifications
InitProgram ==
    /\ mainPc = "setup"
    /\ setupLog = <<>>
    /\ fw = [set |-> FALSE, timeout |-> {}, chain |-> FALSE, rules |-> <<>>, jump |-> FALSE]
    /\ ipset = Empty
    /\ whitelist = Empty
    /\ sessionLock = "free"
    /\ whitelistLock = "free"
    /\ handler = [h \in Handlers |-> Idle]
    /\ sweeper = [pc |-> "sleep", left |-> SWEEP_INTERVAL, found |-> <<>>, err |-> {}]
    /\ shutdown = [pc |-> "waiting", log |-> <<>>, late |-> FALSE]

Init == InitProgram /\ trace = NoTrace(FALSE)

InitTraced == InitProgram /\ trace = NoTrace(TRUE)

Next ==
    \/ SetupStep
    \/ \E h \in Handlers, a \in Addrs, t \in BOOLEAN : Arrive(h, a, t)
    \/ \E h \in Handlers : HandlerTest(h)
    \/ \E h \in Handlers : HandlerDel(h)
    \/ \E h \in Handlers : HandlerAdd(h)
    \/ \E h \in Handlers : HandlerReturn(h)
    \/ \E d \in Delays : Tick(d)
    \/ SweeperLockWhitelist
    \/ SweeperLockSession
    \/ SweeperScan
    \/ SweeperClean
    \/ \E sig \in {"ctrl_c", "terminate"} : Signal(sig)
    \/ CleanIptables
    \/ CleanIpset
    \/ MainExit

\* the program from its start
Spec == Init /\ [][Next]_vars

\* the same, with the history recorded
SpecTraced == InitTraced /\ [][Next]_vars

\* The cleaner at work: a serving process whose AppState holds any whitelist
\* (address -> Instant, with the set mirroring it), the set created by
\* firewall.rs setup_ipset, which sets no timeout.
SetupDone == [i \in 1..Len(SetupSteps) |-> <<SetupSteps[i], TRUE>>]

ElapsedChoices == {0, (TTL - SWEEP_INTERVAL) * SubSec + 1, MaxElapsed * SubSec}

InitSweep ==
    /\ mainPc = "serving"
    /\ setupLog = SetupDone
    /\ fw = [set |-> TRUE, timeout |-> {}, chain |-> TRUE,
             rules |-> <<"append_sports_drop", "append_set_accept",
                         "append_hashlimit_return", "append_drop">>,
             jump |-> TRUE]
    /\ \E S \in SUBSET Addrs : whitelist \in [S -> ElapsedChoices]
    /\ ipset = [a \in DOMAIN whitelist |-> 0]
    /\ sessionLock = "free"
    /\ whitelistLock = "free"
    /\ handler = [h \in Handlers |-> Idle]
    /\ sweeper = [pc |-> "sleep", left |-> SWEEP_INTERVAL, found |-> <<>>, err |-> {}]
    /\ shutdown = [pc |-> "waiting", log |-> <<>>, late |-> FALSE]
    /\ trace = NoTrace(FALSE)

NextSweep ==
    \/ \E h \in Handlers, a \in Addrs, t \in BOOLEAN : Arrive(h, a, t)
    \/ \E h \in Handlers : HandlerTest(h)
    \/ \E h \in Handlers : HandlerDel(h)
    \/ \E h \in Handlers : HandlerAdd(h)
    \/ \E h \in Handlers : HandlerReturn(h)
    \/ \E d \in Delays : Tick(d)
    \/ SweeperLockWhitelist
    \/ SweeperLockSession
    \/ SweeperScan
    \/ SweeperClean

SpecSweep == InitSweep /\ [][NextSweep]_vars

\* The cleaner under the scheduling it runs with: time passes (handlers
\* take no time, so again and again none is running and the clock moves), and
\* the tokio runtime polls the cleaner task, whose lock().await is served once
\* the Mutex is free (tokio's Mutex is fair).
SweeperStep ==
    SweeperLockWhitelist \/ SweeperLockSession \/ SweeperScan \/ SweeperClean

SweepFairness ==
    /\ SF_vars(\E d \in Delays : Tick(d))
    /\ WF_vars(SweeperStep)
    /\ []<>(\A h \in Handlers : handler[h].pc = "idle")

\* every address is in the whitelist, stale now or at the next sweep but one
InitSweepLive ==
    /\ InitSweep
    /\ DOMAIN whitelist = Addrs
    /\ \A a \in Addrs : whitelist[a] > 0

SpecSweepLive == InitSweepLive /\ [][NextSweep]_vars /\ SweepFairness

\* a call of handler h on the set, behind its ipset_session.lock().await
HandlerStep(h) == HandlerTest(h) \/ HandlerDel(h) \/ HandlerAdd(h)

\* ------------------------------------------------------------- claims
Running == mainPc = "serving" /\ shutdown.pc = "waiting"

AtRest ==
    /\ Running
    /\ sessionLock = "free"
    /\ whitelistLock = "free"
    /\ \A h \in Handlers : handler[h].pc = "idle"

\* C1: outside a critical section, an address is a key of the whitelist if
\* and only if it is a member of the set.
C1_StoreMirrorsSet == AtRest => DOMAIN whitelist = DOMAIN ipset

\* C2: a request that is not classified as trusted issues no add and no del,
\* and its caller does not see an admission.
C2_UntrustedRejected ==
    \A h \in Handlers :
        (handler[h].pc # "idle" /\ ~trace.req[h].trusted) =>
            /\ Issued(trace.req[h].calls, "add") = 0
            /\ Issued(trace.req[h].calls, "del") = 0
            /\ Outcome(h) # "admitted"

\* C3: N trusted signals for one address, one after the other and each within
\* TTL of the one before, issue one add in all and no del.
C3_RefreshIdempotent ==
    \A a \in Addrs :
        LET hs == trace.addr[a] IN
        (hs.n >= 1 /\ hs.within /\ hs.clean /\ InFlight(a) = {}) =>
            hs.adds = 1 /\ hs.dels = 0

\* C4: NumHandlers concurrent trusted signals for one new address end with one
\* add, no del, one whitelist entry and no handler answering with a failure.
C4_ConcurrentAdmission ==
    \A a \in Addrs :
        (\A h \in Handlers :
            /\ handler[h].addr = a
            /\ handler[h].pc \in {"ok", "err"}
            /\ trace.req[h].trusted
            /\ trace.req[h].new
            /\ AllOk(trace.req[h].calls)) =>
            /\ trace.addr[a].adds = 1
            /\ trace.addr[a].dels = 0
            /\ a \in DOMAIN whitelist
            /\ \A h \in Handlers : Outcome(h) = "admitted"

\* C5: a trusted signal for an address admitted more than TTL ago issues one
\* del and then one add, and leaves the address in the whitelist with an
\* Instant of this moment.
C5_Readmission ==
    \A h \in Handlers :
        LET tag == trace.req[h]
            a == handler[h].addr
        IN (handler[h].pc = "ok" /\ tag.trusted /\ tag.readmit /\ AllOk(tag.calls)) =>
            /\ Ops(tag.calls) = <<"test", "del", "add">>
            /\ a \in DOMAIN whitelist
            /\ whitelist[a] = 0

\* C6: an address admitted once, with no further signal, is in the whitelist
\* and in the set until TTL has passed, and is in neither once TTL and a sweep
\* interval have passed and the sweep of that moment is over.
C6_TtlWindow ==
    \A a \in Addrs :
        LET hs == trace.addr[a] IN
        (Running /\ hs.n = 1 /\ hs.adds = 1 /\ hs.clean /\ InFlight(a) = {}) =>
            /\ hs.since < TTL =>
                   a \in DOMAIN ipset /\ a \in DOMAIN whitelist
            /\ (hs.since >= TTL + SWEEP_INTERVAL /\ sweeper.pc = "sleep" /\ sweeper.left > 0) =>
                   a \notin DOMAIN ipset /\ a \notin DOMAIN whitelist

\* step x of the teardown was done before step y was
Before(x, y) ==
    \A j \in 1..Len(shutdown.log) :
        shutdown.log[j] = <<y, TRUE>> =>
            \E i \in 1..(j - 1) : shutdown.log[i] = <<x, TRUE>>

\* C7: in every teardown, whichever steps fail, the jump rule is removed
\* before the chain is deleted and the chain is deleted before the set is
\* destroyed.
C7_TeardownOrder ==
    /\ Before("delete_jump", "delete_chain")
    /\ Before("delete_chain", "destroy_set")
    /\ (~fw.set /\ shutdown.log # <<>>) => ~fw.chain
    /\ (~fw.chain /\ shutdown.log # <<>>) => ~fw.jump

C7_Witness == shutdown.pc = "done" /\ ~fw.set

\* C8: a failed step of the setup aborts the process, and a request is only
\* ever handled after every step of the setup has succeeded.
C8_FatalStartup ==
    /\ ~AllOk(setupLog) => mainPc = "aborted"
    /\ (mainPc \in {"serving", "exited"} \/ \E h \in Handlers : handler[h].pc # "idle") =>
           AllOk(setupLog) /\ Len(setupLog) = Len(SetupSteps)

C8_Witness == mainPc = "aborted" /\ fw.set /\ fw.chain /\ ~fw.jump

\* C9: an admission whose call into the set fails answers its caller with a
\* failure, and no step of a handler changes the whitelist.
C9_FailurePropagates ==
    [][\A h \in Handlers :
          handler'[h] # handler[h] =>
              /\ whitelist' = whitelist
              /\ handler'[h].res = "err" => handler'[h].pc = "err"]_vars

C9_Witness ==
    \E h \in Handlers :
        /\ handler[h].pc = "err"
        /\ handler[h].addr \in DOMAIN whitelist
        /\ handler[h].addr \notin DOMAIN ipset

\* C10: in a sweep, every stale address other than one whose del failed is
\* removed from the whitelist and from the set.
C10_SweepIsolation ==
    [][(sweeper.pc = "clean" /\ sweeper'.pc = "sleep") =>
          \A a \in Stale(whitelist) :
              a \notin sweeper'.err =>
                  a \notin DOMAIN whitelist' /\ a \notin DOMAIN ipset']_vars

\* the step that ends a sweep
SweepEnds == sweeper.pc = "clean" /\ sweeper'.pc # "clean"

\* C11: a sweep in which a del failed leaves the address of the failed del
\* in the whitelist, and leaves no stale address in only one of whitelist
\* and set.
C11_NoDurableDivergence ==
    [][SweepEnds =>
          \A a \in Stale(whitelist) :
              /\ a \in sweeper'.err => a \in DOMAIN whitelist'
              /\ a \in DOMAIN ipset =>
                     (a \in DOMAIN whitelist' <=> a \in DOMAIN ipset')]_vars

\* handler h has made its membership test and not yet its add
MidAdmission(h) == handler[h].pc \in {"del", "add"}

\* C12: between the membership test and the add of one admission, no step of
\* another task changes whether the admission's address is in the set or in
\* the whitelist.
C12_AdmissionAtomic ==
    [][\A h \in Handlers :
          (MidAdmission(h) /\ handler'[h] = handler[h]) =>
              LET a == handler[h].addr IN
              /\ (a \in DOMAIN ipset') = (a \in DOMAIN ipset)
              /\ (a \in DOMAIN whitelist') = (a \in DOMAIN whitelist)]_vars

\* a step of the teardown is made
TeardownStep == shutdown'.log # shutdown.log

\* the teardown has come to the set
SetTeardownBegun ==
    \E i \in 1..Len(shutdown.log) : shutdown.log[i][1] \in {"flush_set", "destroy_set"}

\* C13: no step of the teardown is made while an admission is between its
\* calls or a sweep between its scan and its removals, and once the teardown
\* has come to the set no admission changes the set.
C13_TeardownNotDuringMutation ==
    [][/\ TeardownStep =>
            /\ \A h \in Handlers : ~MidAdmission(h)
            /\ sweeper.pc # "clean"
       /\ (SetTeardownBegun /\ ~TeardownStep) => ipset' = ipset]_vars

\* the teardown has called this step, whatever came of it
Attempted(step) == \E i \in 1..Len(shutdown.log) : shutdown.log[i][1] = step

\* C14: when the shutdown path is over, every step of the teardown has been
\* attempted and the path has not panicked.
C14_BestEffortTeardown ==
    shutdown.pc \in {"done", "panicked"} =>
        /\ \A i \in 1..Len(IptablesSteps) : Attempted(IptablesSteps[i])
        /\ \A i \in 1..Len(IpsetSteps) : Attempted(IpsetSteps[i])
        /\ shutdown.pc = "done"

\* C15: the loop of the cleaner never ends: whatever the sweeps before have
\* met, failed dels included, a further sweep runs.
C15_SweeperLiveness == []<>(sweeper.pc = "clean")

C15_Witness == sweeper.pc = "clean" /\ sweeper.err # {}

\* more than TTL has passed since the Instant
PastTtl(e) == e > TTL * SubSec

\* C16: a sweep none of whose dels fails evicts every entry of the whitelist
\* whose Instant is more than TTL old, from whitelist and set, and leaves
\* every other entry as it was, in the whitelist and in the set.
C16_SweepSelectivity ==
    [][(SweepEnds /\ sweeper'.err = {}) =>
          \A a \in DOMAIN whitelist :
              IF PastTtl(whitelist[a])
              THEN a \notin DOMAIN whitelist' /\ a \notin DOMAIN ipset'
              ELSE /\ a \in DOMAIN whitelist'
                   /\ whitelist'[a] = whitelist[a]
                   /\ (a \in DOMAIN ipset') = (a \in DOMAIN ipset)]_vars

\* handler h makes its call on the set in this step
Calls(h) == handler[h].pc \in {"test", "del", "add"} /\ handler'[h] # handler[h]

C18_DeadlockFree ==
    mainPc = "serving" =>
        /\ sessionLock # "free" =>
               /\ sessionLock = "sweeper" /\ whitelistLock = "sweeper"
               /\ sweeper.pc \in {"scan", "clean"}
               /\ ENABLED (SweeperScan \/ SweeperClean)
        /\ whitelistLock # "free" =>
               /\ whitelistLock = "sweeper"
               /\ sweeper.pc \in {"lock_session", "scan", "clean"}
               /\ ENABLED SweeperStep
        /\ sessionLock = "free" =>
               /\ \A h \in Handlers :
                      handler[h].pc \in {"test", "del", "add"} => ENABLED HandlerStep(h)
               /\ shutdown.pc = "clean_ipset" => ENABLED CleanIpset
               /\ sweeper.pc = "lock_session" => ENABLED SweeperLockSession

C18_Witness ==
    /\ sessionLock = "sweeper"
    /\ shutdown.pc = "clean_ipset"
    /\ \E h \in Handlers : handler[h].pc \in {"test", "del", "add"}

\* C19: in every state, the jump rule of INPUT exists only while the chain
\* MORTIS exists, rules exist only in an existing chain, and the chain holds
\* the rule that matches the set only while the set exists.
C19_NoDanglingReference ==
    /\ fw.jump => fw.chain
    /\ fw.rules # <<>> => fw.chain
    /\ (\E i \in 1..Len(fw.rules) : fw.rules[i] = "append_set_accept") => fw.set

C19_Witness ==
    /\ shutdown.pc = "clean_ipset"
    /\ ~fw.jump /\ ~fw.chain /\ fw.rules = <<>>
    /\ fw.set

\* the state of the lifecycle the process is in
Lifecycle ==
    CASE mainPc = "setup"   -> "Uninitialized"
      [] mainPc = "aborted" -> "Aborted"
      [] mainPc = "exited"  -> "Terminated"
      [] mainPc = "serving" /\ shutdown.pc = "waiting" -> "Running"
      [] OTHER              -> "Draining"

LifecycleMoves ==
    {<<"Uninitialized", "Running">>, <<"Uninitialized", "Aborted">>,
     <<"Running", "Draining">>, <<"Draining", "Terminated">>}

\* how many times the teardown has called this step
TimesAttempted(log, step) == Cardinality({i \in 1..Len(log) : log[i][1] = step})

\* C20: the lifecycle only moves Uninitialized -> Running -> Draining ->
\* Terminated (or aborts out of Uninitialized), and no step of the teardown
\* is called twice, also when a second notification arrives.
C20_SingleTeardown ==
    [][/\ Lifecycle' # Lifecycle => <<Lifecycle, Lifecycle'>> \in LifecycleMoves
       /\ \A i \in 1..Len(shutdown'.log) :
              TimesAttempted(shutdown'.log, shutdown'.log[i][1]) = 1]_vars

C20_Witness ==
    /\ mainPc = "exited"
    /\ shutdown.late
    /\ shutdown.pc = "done"
====
